---- MODULE Spec2Model ----
(***************************************************************************)
(* Admission control of the M-Class application system.                    *)
(*                                                                         *)
(* The model follows the request handlers of ApplicationController and     *)
(* MClassController and the Prisma calls of ApplicationService and         *)
(* MClassService, one action per await point: the code that runs between   *)
(* two awaits is one atomic step of the Node.js event loop, and every      *)
(* await hands control to the other requests in flight.                    *)
(*                                                                         *)
(* The store is the PostgreSQL schema of backup_data.sql.  The interactive *)
(* transaction of createApplication is opened with no isolation level, so  *)
(* it runs at the database default, READ COMMITTED: every statement reads  *)
(* the rows committed when it starts, and the row a transaction inserts is *)
(* visible to the others only after its commit.                            *)
(***************************************************************************)
EXTENDS Integers, FiniteSets, Sequences, TLC

\* ------------------------------------------------------------------ bounds
MaxReq  == 2    \* request slots (HTTP requests served in one behaviour)
MaxCap  == 2    \* largest maxParticipants a created class gets
MaxTime == 1    \* the clock runs 0..MaxTime
MaxPage == 2    \* a listing asks for page 1..MaxPage
MaxLimit == 2   \* with a page size 1..MaxLimit

\* The clock counts quarters of an hour.
MinDuration == 2     \* minDuration, 30 minutes
MaxDuration == 32    \* maxDuration, 8 hours

Users    == {"u1", "u2"}
ClassIds == {"c1", "c2"}
Reqs     == 1..MaxReq
Ops      == {"apply", "cancel", "delete"}

\* --------------------------------------------------------------- state
VARIABLES
  now,           \* the clock read by new Date()
  users,         \* table users: the ids of the rows
  mclasses,      \* table mclasses: ClassIds -> row state
  applications,  \* table applications: the committed rows
  pending,       \* rows inserted by a transaction that has not committed
  req,           \* the requests: operation, arguments, position, locals, response
  burst          \* history: every request so far arrived before any was answered,
                 \* at a class that existed and had not started

vars == <<now, users, mclasses, applications, pending, req, burst>>

NoTime == 0 - 1

\* A class id that was never created, a live row, or a deleted row (ids are
\* UUIDs: a deleted id is never handed out again).
NoClassRow == [status |-> "none", maxParticipants |-> 0, startAt |-> NoTime,
               endAt |-> NoTime]

DeletedClassRow == [status |-> "deleted", maxParticipants |-> 0, startAt |-> NoTime,
                    endAt |-> NoTime]

\* getApplicationStats returns null.
NoStats == [found |-> FALSE, currentApplications |-> 0, maxParticipants |-> 0,
            availableSpots |-> 0, isFullyBooked |-> FALSE]

\* A request slot.  mStartAt is the handler's local mclass.startAt, err the
\* code of the Prisma error its catch block caught, mail the state of the
\* notification it started, stats and list the value a read returned, page
\* and limit the arguments of a listing.
IdleReq == [op |-> "none", userId |-> "none", classId |-> "none",
            pc |-> "idle", mStartAt |-> NoTime, err |-> "none",
            result |-> "none", mail |-> "none", stats |-> NoStats,
            page |-> 0, limit |-> 0, list |-> <<>>]

\* ------------------------------------------------------- store queries
ClassLive(c) == mclasses[c].status = "live"

CountApplications_AnyClass(rows, c) == Cardinality(rows)

\* _count.applications of a class, over the committed rows.
CountApplications(rows, c) == Cardinality({a \in rows : a.classId = c})

\* application.findUnique on unique_user_class_application.
FindApplication(rows, u, c) == {a \in rows : a.userId = u /\ a.classId = c}

\* ApplicationService.getUserApplications: the records of a user.
GetUserApplications(rows, u) == {a \in rows : a.userId = u}

\* The unique index applications_userId_classId_key rejects a second row
\* with the same (userId, classId).
UniqueIndexConflict_None(rows, u, c) == FALSE

UniqueIndexConflict(rows, u, c) == FindApplication(rows, u, c) # {}

ForeignKeyHolds_UserOnly(u, c) == u \in users

\* The foreign keys applications_userId_fkey and applications_classId_fkey:
\* the referenced user row and class row exist.
ForeignKeyHolds(u, c) == u \in users /\ ClassLive(c)

\* ------------------------------------------------------ error mapping
\* ApplicationService.createApplication, catch: Prisma codes to messages.
CreateApplicationCatch_NoP2002(err) ==
  CASE err = "P2003" -> "Invalid user ID or class ID"
    [] OTHER         -> err

CreateApplicationCatch(err) ==
  CASE err = "P2002" -> "User has already applied to this class"
    [] err = "P2003" -> "Invalid user ID or class ID"
    [] OTHER         -> err

\* ApplicationController.applyToClass, catch: message to response code.
ApplyErrorResponse(msg) ==
  CASE msg = "User has already applied to this class" -> "AlreadyApplied"
    [] msg = "Class is fully booked"                   -> "CapacityExceeded"
    [] msg = "Class not found"                         -> "ClassNotFound"
    [] msg = "Invalid user ID or class ID"             -> "InvalidIds"
    [] OTHER                                           -> "InternalError"

\* ApplicationService.cancelApplication, catch.
CancelApplicationCatch(err) ==
  CASE err = "P2025" -> "Application not found"
    [] OTHER         -> err

\* ApplicationController.cancelApplication, catch.
CancelErrorResponse(msg) ==
  CASE msg = "Application not found" -> "ApplicationNotFound"
    [] OTHER                         -> "InternalError"

\* MClassService.deleteClass, catch, and MClassController.deleteClass, catch.
DeleteErrorResponse(err) ==
  CASE err = "P2025" -> "ClassNotFound"
    [] OTHER         -> "InternalError"

\* ------------------------------------------------------------ helpers
\* The response is sent; the handler's locals are gone.
Finish(r, res) == req' = [req EXCEPT ![r].pc = "done", ![r].result = res,
                                     ![r].mStartAt = NoTime]
Goto(r, pc)    == req' = [req EXCEPT ![r].pc = pc]

\* A Prisma call threw the error with this code; the catch blocks turned it
\* into the response.
Caught(r, code, res) == req' = [req EXCEPT ![r].pc = "done", ![r].result = res,
                                           ![r].err = code, ![r].mStartAt = NoTime]

\* ---------------------------------------------------------------- Init
Init ==
  /\ now = 0
  /\ users = Users
  /\ mclasses = [c \in ClassIds |-> NoClassRow]
  /\ applications = {}
  /\ pending = {}
  /\ req = [r \in Reqs |-> IdleReq]
  /\ burst = TRUE

\* ------------------------------------------------------- environment
Tick ==
  /\ now < MaxTime
  /\ now' = now + 1
  /\ UNCHANGED <<users, mclasses, applications, pending, req, burst>>

\* MClassController.createClass with the end dates E the administrators
\* send: maxParticipants is a positive integer, startAt lies in the future
\* and endAt after startAt.  The route mounts no other validation.  Class
\* ids are handed out in order; C is the set of class ids in use.
CreateClassWith(C, E) ==
  \E c \in C, cap \in 0..MaxCap, start \in 0..MaxTime, end \in E :
    /\ mclasses[c].status = "none"
    /\ IF c = "c1" THEN TRUE ELSE mclasses["c1"].status # "none"
    /\ ~(cap < 1)
    /\ ~(start <= now)
    /\ ~(end <= start)
    /\ mclasses' = [mclasses EXCEPT ![c] =
                      [status |-> "live", maxParticipants |-> cap,
                       startAt |-> start, endAt |-> end]]
    /\ UNCHANGED <<users, now, applications, pending, req, burst>>

\* Class creation where every class ends MinDuration after the latest start.
CreateClass(C) == CreateClassWith(C, {MaxTime + MinDuration})

\* A request arrives: POST /:classId/apply, DELETE /:classId/apply,
\* DELETE /:classId, for a class id of C.  Slots are taken in order.  The
\* authenticate middleware lets the request in when the user row exists.
Start(r, C) ==
  /\ req[r].pc = "idle"
  /\ IF r = 1 THEN TRUE ELSE req[r - 1].pc # "idle"
  /\ \E op \in Ops, u \in Users, c \in C :
       /\ u \in users
       /\ op = "delete" => u = "u1"
       /\ req' = [req EXCEPT ![r] =
                    [IdleReq EXCEPT !.op = op, !.userId = u, !.classId = c,
                                    !.pc = "getClass"]]
       /\ burst' = /\ burst
                   /\ \A q \in Reqs : req[q].pc # "done"
                   /\ mclasses[c].status = "live"
                   /\ now < mclasses[c].startAt
  /\ UNCHANGED <<users, now, mclasses, applications, pending>>

\* MClassService.getClassById, then the null check of the three handlers.
GetClassById(r) ==
  /\ req[r].pc = "getClass"
  /\ LET c == req[r].classId IN
       IF ~ClassLive(c)
         THEN Finish(r, "ClassNotFound")
         ELSE req' = [req EXCEPT ![r].mStartAt = mclasses[c].startAt,
                                 ![r].pc = IF req[r].op = "delete" THEN "deleteClass"
                                           ELSE "checkStart"]
  /\ UNCHANGED <<users, now, mclasses, applications, pending, burst>>

\* ------------------------------------------------------------- Apply
\* applyToClass: mclass.startAt <= now.
ApplyCheckStarted_Strict(r) ==
  /\ req[r].pc = "checkStart" /\ req[r].op = "apply"
  /\ IF req[r].mStartAt < now
       THEN Finish(r, "ClassAlreadyStarted")
       ELSE Goto(r, "txFindClass")
  /\ UNCHANGED <<users, now, mclasses, applications, pending, burst>>

ApplyCheckStarted(r) ==
  /\ req[r].pc = "checkStart" /\ req[r].op = "apply"
  /\ IF req[r].mStartAt <= now
       THEN Finish(r, "ClassAlreadyStarted")
       ELSE Goto(r, "txFindClass")
  /\ UNCHANGED <<users, now, mclasses, applications, pending, burst>>

\* createApplication, in the transaction: mClass.findUnique with _count, the
\* null check and the capacity check.
TxFindClass_OffByOne(r) ==
  /\ req[r].pc = "txFindClass"
  /\ LET c == req[r].classId IN
       IF ~ClassLive(c)
         THEN Finish(r, ApplyErrorResponse(CreateApplicationCatch("Class not found")))
         ELSE IF CountApplications(applications, c) + 1 >= mclasses[c].maxParticipants
           THEN Finish(r, ApplyErrorResponse(CreateApplicationCatch("Class is fully booked")))
           ELSE Goto(r, "txFindExisting")
  /\ UNCHANGED <<users, now, mclasses, applications, pending, burst>>

TxFindClass(r) ==
  /\ req[r].pc = "txFindClass"
  /\ LET c == req[r].classId IN
       IF ~ClassLive(c)
         THEN Finish(r, ApplyErrorResponse(CreateApplicationCatch("Class not found")))
         ELSE IF CountApplications(applications, c) >= mclasses[c].maxParticipants
           THEN Finish(r, ApplyErrorResponse(CreateApplicationCatch("Class is fully booked")))
           ELSE Goto(r, "txFindExisting")
  /\ UNCHANGED <<users, now, mclasses, applications, pending, burst>>

\* createApplication, in the transaction: application.findUnique and the
\* duplicate check.
TxFindExisting(r) ==
  /\ req[r].pc = "txFindExisting"
  /\ IF FindApplication(applications, req[r].userId, req[r].classId) # {}
       THEN Finish(r, ApplyErrorResponse(
                        CreateApplicationCatch("User has already applied to this class")))
       ELSE Goto(r, "txCreate")
  /\ UNCHANGED <<users, now, mclasses, applications, pending, burst>>

\* createApplication, in the transaction: application.create.  The insert
\* waits while another transaction holds an uncommitted row with the same
\* key; then the unique index and the foreign key decide.
TxCreate(r) ==
  /\ req[r].pc = "txCreate"
  /\ LET u == req[r].userId
         c == req[r].classId
     IN
       /\ ~UniqueIndexConflict(pending, u, c)
       /\ IF UniqueIndexConflict(applications, u, c)
            THEN /\ Caught(r, "P2002", ApplyErrorResponse(CreateApplicationCatch("P2002")))
                 /\ UNCHANGED pending
            ELSE IF ~ForeignKeyHolds(u, c)
              THEN /\ Caught(r, "P2003", ApplyErrorResponse(CreateApplicationCatch("P2003")))
                   /\ UNCHANGED pending
              ELSE /\ pending' = pending \cup {[id |-> r, userId |-> u, classId |-> c,
                                                createdAt |-> now]}
                   /\ Goto(r, "txCommit")
  /\ UNCHANGED <<users, now, mclasses, applications, burst>>

\* The transaction callback returns and $transaction commits.
TxCommit(r) ==
  /\ req[r].pc = "txCommit"
  /\ applications' = applications \cup {a \in pending : a.id = r}
  /\ pending' = {a \in pending : a.id # r}
  /\ Goto(r, "created")
  /\ UNCHANGED <<users, now, mclasses, burst>>

\* applyToClass, after createApplication has returned: the notification is
\* started and not awaited, and res.status(201) follows in the same step.
ApplyRespond(r) ==
  /\ req[r].pc = "created"
  /\ req' = [req EXCEPT ![r].pc = "done", ![r].result = "Created",
                         ![r].mStartAt = NoTime, ![r].mail = "sending"]
  /\ UNCHANGED <<users, now, mclasses, applications, pending, burst>>

\* sendApplicationSuccessEmail in the background: EmailService.sendEmail
\* resolves to true, or logs the failure and resolves to false.  A failed
\* notification that took the application back:
SendApplicationSuccessEmail_Rollback(r) ==
  /\ req[r].mail = "sending"
  /\ \E sent \in BOOLEAN :
       /\ req' = [req EXCEPT ![r].mail = IF sent THEN "sent" ELSE "failed"]
       /\ applications' = IF sent THEN applications
                          ELSE {a \in applications : a.id # r}
  /\ UNCHANGED <<users, now, mclasses, pending, burst>>

SendApplicationSuccessEmail(r) ==
  /\ req[r].mail = "sending"
  /\ \E sent \in BOOLEAN :
       req' = [req EXCEPT ![r].mail = IF sent THEN "sent" ELSE "failed"]
  /\ UNCHANGED <<users, now, mclasses, applications, pending, burst>>

\* ------------------------------------------------------------ Cancel
\* cancelApplication (controller): mclass.startAt <= now.
CancelCheckStarted_Strict(r) ==
  /\ req[r].pc = "checkStart" /\ req[r].op = "cancel"
  /\ IF req[r].mStartAt < now
       THEN Finish(r, "ClassAlreadyStarted")
       ELSE Goto(r, "cancelDelete")
  /\ UNCHANGED <<users, now, mclasses, applications, pending, burst>>

CancelCheckStarted(r) ==
  /\ req[r].pc = "checkStart" /\ req[r].op = "cancel"
  /\ IF req[r].mStartAt <= now
       THEN Finish(r, "ClassAlreadyStarted")
       ELSE Goto(r, "cancelDelete")
  /\ UNCHANGED <<users, now, mclasses, applications, pending, burst>>

\* ApplicationService.cancelApplication: application.delete on the unique
\* key, one statement over the committed rows; P2025 when there is none.
CancelDelete_WholeClass(r) ==
  /\ req[r].pc = "cancelDelete"
  /\ LET found == FindApplication(applications, req[r].userId, req[r].classId) IN
       IF found = {}
         THEN /\ Caught(r, "P2025", CancelErrorResponse(CancelApplicationCatch("P2025")))
              /\ UNCHANGED applications
         ELSE /\ applications' = {a \in applications : a.classId # req[r].classId}
              /\ Finish(r, "Cancelled")
  /\ UNCHANGED <<users, now, mclasses, pending, burst>>

CancelDelete_IgnoreMissing(r) ==
  /\ req[r].pc = "cancelDelete"
  /\ applications' = applications \ FindApplication(applications, req[r].userId, req[r].classId)
  /\ Finish(r, "Cancelled")
  /\ UNCHANGED <<users, now, mclasses, pending, burst>>

CancelDelete(r) ==
  /\ req[r].pc = "cancelDelete"
  /\ LET found == FindApplication(applications, req[r].userId, req[r].classId) IN
       IF found = {}
         THEN /\ Caught(r, "P2025", CancelErrorResponse(CancelApplicationCatch("P2025")))
              /\ UNCHANGED applications
         ELSE /\ applications' = applications \ found
              /\ Finish(r, "Cancelled")
  /\ UNCHANGED <<users, now, mclasses, pending, burst>>

\* ------------------------------------------------------ Delete class
\* MClassService.deleteClass: mClass.delete, with ON DELETE CASCADE on
\* applications.classId.  The delete waits for the transactions that hold a
\* key-share lock on the class row (an uncommitted insert referencing it).
DeleteClass_NoCascade(r) ==
  /\ req[r].pc = "deleteClass"
  /\ LET c == req[r].classId IN
       /\ \A a \in pending : a.classId # c
       /\ IF ~ClassLive(c)
            THEN /\ Caught(r, "P2025", DeleteErrorResponse("P2025"))
                 /\ UNCHANGED mclasses
            ELSE /\ mclasses' = [mclasses EXCEPT ![c] = DeletedClassRow]
                 /\ Finish(r, "Deleted")
  /\ UNCHANGED <<users, now, applications, pending, burst>>

DeleteClass(r) ==
  /\ req[r].pc = "deleteClass"
  /\ LET c == req[r].classId IN
       /\ \A a \in pending : a.classId # c
       /\ IF ~ClassLive(c)
            THEN /\ Caught(r, "P2025", DeleteErrorResponse("P2025"))
                 /\ UNCHANGED <<mclasses, applications>>
            ELSE /\ mclasses' = [mclasses EXCEPT ![c] = DeletedClassRow]
                 /\ applications' = {a \in applications : a.classId # c}
                 /\ Finish(r, "Deleted")
  /\ UNCHANGED <<users, now, pending, burst>>

\* ---------------------------------------------------------------- Next
\* The clock and the requests for the class ids of C.
Serve(C) ==
  \/ Tick
  \/ \E r \in Reqs : Start(r, C)
  \/ \E r \in Reqs : GetClassById(r)
  \/ \E r \in Reqs : ApplyCheckStarted(r)
  \/ \E r \in Reqs : TxFindClass(r)
  \/ \E r \in Reqs : TxFindExisting(r)
  \/ \E r \in Reqs : TxCreate(r)
  \/ \E r \in Reqs : TxCommit(r)
  \/ \E r \in Reqs : ApplyRespond(r)
  \/ \E r \in Reqs : SendApplicationSuccessEmail(r)
  \/ \E r \in Reqs : CancelCheckStarted(r)
  \/ \E r \in Reqs : CancelDelete(r)
  \/ \E r \in Reqs : DeleteClass(r)

NextIn(C) ==
  \/ CreateClass(C)
  \/ Serve(C)

\* One class id in use: every request names class c1.
Next == NextIn({"c1"})

Spec == Init /\ [][Next]_vars

\* Both class ids in use.
NextTwoClasses == NextIn(ClassIds)

SpecTwoClasses == Init /\ [][NextTwoClasses]_vars

\* Class creation alone, with every end date from before the clock starts to
\* past the longest duration after the latest start.
EndTimes == 0..(MaxTime + MaxDuration + 1)

NextCreate == Tick \/ CreateClassWith(ClassIds, EndTimes)

SpecCreate == Init /\ [][NextCreate]_vars

\* ------------------------------------------- a store that holds records
\* The ids of the records the store holds when the behaviour begins; they
\* also serve as their createdAt, times before the clock of the behaviour.
SeedId == CHOOSE f \in [Users -> {0 - k : k \in 1..Cardinality(Users)}] :
            \A u, v \in Users : u # v => f[u] # f[v]

\* The server starts on a store that holds class c1, not yet started, and
\* the records of the users admitted to it so far.
InitPopulated ==
  /\ now = 0
  /\ users = Users
  /\ \E cap \in 1..MaxCap, start \in 1..MaxTime, S \in SUBSET Users :
       /\ Cardinality(S) <= cap
       /\ mclasses = [c \in ClassIds |->
                        IF c = "c1"
                          THEN [status |-> "live", maxParticipants |-> cap,
                                startAt |-> start, endAt |-> start + MinDuration]
                          ELSE NoClassRow]
       /\ applications = {[id |-> SeedId[u], userId |-> u, classId |-> "c1",
                            createdAt |-> SeedId[u]] : u \in S}
  /\ pending = {}
  /\ req = [r \in Reqs |-> IdleReq]
  /\ burst = TRUE

NextPopulated == Serve({"c1"})

SpecPopulated == InitPopulated /\ [][NextPopulated]_vars

\* ------------------------------------- service calls without a route
\* UserService.deleteUser: user.delete, with ON DELETE CASCADE on
\* applications.userId.  The delete waits for the transactions that hold a
\* key-share lock on the user row (an uncommitted insert referencing it).
DeleteUser_AllRecords(u) ==
  /\ u \in users
  /\ \A a \in pending : a.userId # u
  /\ users' = users \ {u}
  /\ applications' = {}
  /\ UNCHANGED <<now, mclasses, pending, req, burst>>

DeleteUser(u) ==
  /\ u \in users
  /\ \A a \in pending : a.userId # u
  /\ users' = users \ {u}
  /\ applications' = {a \in applications : a.userId # u}
  /\ UNCHANGED <<now, mclasses, pending, req, burst>>

\* ApplicationService.deleteApplicationsByClassId: application.deleteMany
\* over the committed rows of the class.
DeleteApplicationsByClassId(c) ==
  /\ applications' = {a \in applications : a.classId # c}
  /\ UNCHANGED <<now, users, mclasses, pending, req, burst>>

NextService ==
  \/ NextPopulated
  \/ \E u \in Users : DeleteUser(u)
  \/ DeleteApplicationsByClassId("c1")

SpecService == InitPopulated /\ [][NextService]_vars

\* UpdateMClassData: every field is optional.
Undefined == NoTime - 1

UpdateMClassData ==
  [ maxParticipants : {Undefined} \cup (0..MaxCap),
    startAt         : {Undefined} \cup (0..MaxTime),
    endAt           : {Undefined, MaxTime + MinDuration} ]

Patched(old, new) == IF new = Undefined THEN old ELSE new

\* MClassService.updateClass: one update of the class row with the fields of
\* data, whatever the class holds; a missing row is P2025, 'Class not found'.
UpdateClass(c) ==
  \E data \in UpdateMClassData :
    /\ ClassLive(c)
    /\ mclasses' = [mclasses EXCEPT ![c] =
         [status          |-> "live",
          maxParticipants |-> Patched(mclasses[c].maxParticipants, data.maxParticipants),
          startAt         |-> Patched(mclasses[c].startAt, data.startAt),
          endAt           |-> Patched(mclasses[c].endAt, data.endAt)]]
    /\ UNCHANGED <<now, users, applications, pending, req, burst>>

NextUpdate == NextPopulated \/ UpdateClass("c1")

SpecUpdate == InitPopulated /\ [][NextUpdate]_vars

\* ------------------------------------------------------------ reads
Max(a, b) == IF a > b THEN a ELSE b
Min(a, b) == IF a < b THEN a ELSE b

\* The id of the record a store holds for user u and class c.
SeedIdOf(u, c) == IF c = "c1" THEN SeedId[u] ELSE SeedId[u] - Cardinality(Users)

\* ApplicationService.getApplicationStats (MClassService.getClassStats is
\* the same code): one findUnique with _count, then the report.
StatsOf_NoClamp(c) ==
  IF ~ClassLive(c)
    THEN NoStats
    ELSE LET currentApplications == CountApplications(applications, c)
             availableSpots == mclasses[c].maxParticipants - currentApplications
         IN [found |-> TRUE,
             currentApplications |-> currentApplications,
             maxParticipants |-> mclasses[c].maxParticipants,
             availableSpots |-> availableSpots,
             isFullyBooked |-> availableSpots <= 0]

StatsOf(c) ==
  IF ~ClassLive(c)
    THEN NoStats
    ELSE LET currentApplications == CountApplications(applications, c)
             availableSpots == mclasses[c].maxParticipants - currentApplications
         IN [found |-> TRUE,
             currentApplications |-> currentApplications,
             maxParticipants |-> mclasses[c].maxParticipants,
             availableSpots |-> Max(0, availableSpots),
             isFullyBooked |-> availableSpots <= 0]

\* A call of getApplicationStats: one await, answered in one step.  A report
\* that leaves out the classes that have started:
GetApplicationStats_HidesStarted(r) ==
  /\ req[r].pc = "idle"
  /\ IF r = 1 THEN TRUE ELSE req[r - 1].pc # "idle"
  /\ \E c \in ClassIds :
       req' = [req EXCEPT ![r] =
                 [IdleReq EXCEPT !.op = "stats", !.classId = c, !.pc = "done",
                                 !.stats = IF ClassLive(c) /\ mclasses[c].startAt <= now
                                             THEN NoStats ELSE StatsOf(c)]]
  /\ UNCHANGED <<now, users, mclasses, applications, pending, burst>>

GetApplicationStats(r) ==
  /\ req[r].pc = "idle"
  /\ IF r = 1 THEN TRUE ELSE req[r - 1].pc # "idle"
  /\ \E c \in ClassIds :
       req' = [req EXCEPT ![r] =
                 [IdleReq EXCEPT !.op = "stats", !.classId = c, !.pc = "done",
                                 !.stats = StatsOf(c)]]
  /\ UNCHANGED <<now, users, mclasses, applications, pending, burst>>

\* The stores the reads are applied to: each class absent, or present with
\* the records of some users.  A class can hold more records than
\* maxParticipants (two transactions of createApplication that overlapped).
InitRead ==
  /\ now = 0
  /\ users = Users
  /\ \E cap \in [ClassIds -> 0..MaxCap], S \in [ClassIds -> SUBSET Users] :
       /\ \A c \in ClassIds : cap[c] = 0 => S[c] = {}
       /\ mclasses = [c \in ClassIds |->
                        IF cap[c] = 0 THEN NoClassRow
                        ELSE [status |-> "live", maxParticipants |-> cap[c],
                              startAt |-> MaxTime,
                              endAt |-> MaxTime + MinDuration]]
       /\ applications = UNION {{[id |-> SeedIdOf(u, c), userId |-> u, classId |-> c,
                                   createdAt |-> SeedId[u]] : u \in S[c]} : c \in ClassIds}
  /\ pending = {}
  /\ req = [r \in Reqs |-> IdleReq]
  /\ burst = TRUE

NextStats ==
  \/ Tick
  \/ \E r \in Reqs : GetApplicationStats(r)

SpecStats == InitRead /\ [][NextStats]_vars

\* The orders findMany can return rows in under orderBy createdAt: every
\* arrangement of the rows that is sorted; rows with equal createdAt come in
\* any order.
Arrangements(rows) ==
  {s \in [1..Cardinality(rows) -> rows] :
     \A i, j \in 1..Cardinality(rows) : i # j => s[i] # s[j]}

OrderByCreatedAtAsc(rows) ==
  {s \in Arrangements(rows) :
     \A i, j \in DOMAIN s : i < j => s[i].createdAt <= s[j].createdAt}

OrderByCreatedAtDesc(rows) ==
  {s \in Arrangements(rows) :
     \A i, j \in DOMAIN s : i < j => s[i].createdAt >= s[j].createdAt}

\* skip (page - 1) * limit, take limit.
SkipTake(s, page, limit) ==
  SubSeq(s, (page - 1) * limit + 1, Min(page * limit, Len(s)))

\* ApplicationService.getClassApplications: where classId, orderBy
\* createdAt asc, skip, take.
GetClassApplicationsPage(r) ==
  /\ req[r].pc = "idle"
  /\ IF r = 1 THEN TRUE ELSE req[r - 1].pc # "idle"
  /\ \E c \in ClassIds, page \in 1..MaxPage, limit \in 1..MaxLimit :
       \E s \in OrderByCreatedAtAsc({a \in applications : a.classId = c}) :
         req' = [req EXCEPT ![r] =
                   [IdleReq EXCEPT !.op = "listClass", !.classId = c, !.pc = "done",
                                   !.page = page, !.limit = limit,
                                   !.list = SkipTake(s, page, limit)]]
  /\ UNCHANGED <<now, users, mclasses, applications, pending, burst>>

\* ApplicationService.getUserApplications: where userId, orderBy createdAt
\* desc, skip, take.
GetUserApplicationsPage_Asc(r) ==
  /\ req[r].pc = "idle"
  /\ IF r = 1 THEN TRUE ELSE req[r - 1].pc # "idle"
  /\ \E u \in Users, page \in 1..MaxPage, limit \in 1..MaxLimit :
       \E s \in OrderByCreatedAtAsc(GetUserApplications(applications, u)) :
         req' = [req EXCEPT ![r] =
                   [IdleReq EXCEPT !.op = "listUser", !.userId = u, !.pc = "done",
                                   !.page = page, !.limit = limit,
                                   !.list = SkipTake(s, page, limit)]]
  /\ UNCHANGED <<now, users, mclasses, applications, pending, burst>>

GetUserApplicationsPage(r) ==
  /\ req[r].pc = "idle"
  /\ IF r = 1 THEN TRUE ELSE req[r - 1].pc # "idle"
  /\ \E u \in Users, page \in 1..MaxPage, limit \in 1..MaxLimit :
       \E s \in OrderByCreatedAtDesc(GetUserApplications(applications, u)) :
         req' = [req EXCEPT ![r] =
                   [IdleReq EXCEPT !.op = "listUser", !.userId = u, !.pc = "done",
                                   !.page = page, !.limit = limit,
                                   !.list = SkipTake(s, page, limit)]]
  /\ UNCHANGED <<now, users, mclasses, applications, pending, burst>>

\* The stores the listings are applied to: both classes exist, and any set
\* of records, one for a user and a class, created at one of two times.
SeedTimes == {NoTime - 1, NoTime}

InitList ==
  /\ now = 0
  /\ users = Users
  /\ mclasses = [c \in ClassIds |->
                   [status |-> "live", maxParticipants |-> MaxCap, startAt |-> MaxTime,
                    endAt |-> MaxTime + MinDuration]]
  /\ \E K \in SUBSET (Users \X ClassIds) : \E t \in [K -> SeedTimes] :
       applications = {[id |-> SeedIdOf(k[1], k[2]), userId |-> k[1], classId |-> k[2],
                        createdAt |-> t[k]] : k \in K}
  /\ pending = {}
  /\ req = [r \in Reqs |-> IdleReq]
  /\ burst = TRUE

NextList ==
  \/ \E r \in Reqs : GetClassApplicationsPage(r)
  \/ \E r \in Reqs : GetUserApplicationsPage(r)

SpecList == InitList /\ [][NextList]_vars

\* -------------------------------------------- a store that times out
\* A statement of the interactive transaction of createApplication, or the
\* delete of cancelApplication, fails with a transient error of the store
\* (the transaction timeout P2028): the transaction is rolled back, the
\* catch blocks of the service rethrow the error and the handler answers
\* with its last branch.
TransientError_NoRollback(r) ==
  /\ req[r].pc \in {"txFindClass", "txFindExisting", "txCreate", "txCommit", "cancelDelete"}
  /\ IF req[r].op = "apply"
       THEN Caught(r, "P2028", ApplyErrorResponse(CreateApplicationCatch("P2028")))
       ELSE Caught(r, "P2028", CancelErrorResponse(CancelApplicationCatch("P2028")))
  /\ UNCHANGED <<now, users, mclasses, applications, pending, burst>>

TransientError_KeepsInsert(r) ==
  /\ req[r].pc \in {"txFindClass", "txFindExisting", "txCreate", "txCommit", "cancelDelete"}
  /\ applications' = applications \cup {a \in pending : a.id = r}
  /\ pending' = {a \in pending : a.id # r}
  /\ IF req[r].op = "apply"
       THEN Caught(r, "P2028", ApplyErrorResponse(CreateApplicationCatch("P2028")))
       ELSE Caught(r, "P2028", CancelErrorResponse(CancelApplicationCatch("P2028")))
  /\ UNCHANGED <<now, users, mclasses, burst>>

TransientError(r) ==
  /\ req[r].pc \in {"txFindClass", "txFindExisting", "txCreate", "txCommit", "cancelDelete"}
  /\ pending' = {a \in pending : a.id # r}
  /\ IF req[r].op = "apply"
       THEN Caught(r, "P2028", ApplyErrorResponse(CreateApplicationCatch("P2028")))
       ELSE Caught(r, "P2028", CancelErrorResponse(CancelApplicationCatch("P2028")))
  /\ UNCHANGED <<now, users, mclasses, applications, burst>>

NextFaulty ==
  \/ Next
  \/ \E r \in Reqs : TransientError(r)

\* The steps of the handler of request r.  The event loop resumes every
\* handler whose awaited call has completed, and the store completes every
\* call that is not waiting for a lock.
Handle(r) ==
  \/ GetClassById(r)
  \/ ApplyCheckStarted(r)
  \/ TxFindClass(r)
  \/ TxFindExisting(r)
  \/ TxCreate(r)
  \/ TxCommit(r)
  \/ ApplyRespond(r)
  \/ CancelCheckStarted(r)
  \/ CancelDelete(r)
  \/ DeleteClass(r)

Fairness == \A r \in Reqs : WF_vars(Handle(r))

SpecFaulty == Init /\ [][NextFaulty]_vars /\ Fairness

\* ------------------------------------------------------------ claims
Issued  == {r \in Reqs : req[r].pc # "idle"}
AllDone == \A r \in Issued : req[r].pc = "done"

\* The requests issued so far were all in flight together, and each arrived
\* at a class that existed and had not started.
FiredTogether == burst

OkApplies(c)  == {r \in Reqs : req[r].op = "apply" /\ req[r].classId = c
                                /\ req[r].result = "Created"}
OkCancels(c)  == {r \in Reqs : req[r].op = "cancel" /\ req[r].classId = c
                                /\ req[r].result = "Cancelled"}

NotStarted(c) == ClassLive(c) /\ now < mclasses[c].startAt

\* C1: in every reachable state every class holds at most maxParticipants
\* application records.
C1_CapacityInvariant ==
  \A c \in ClassIds :
    ClassLive(c) => CountApplications(applications, c) <= mclasses[c].maxParticipants

\* C2: when K Apply calls of K distinct users are fired together at a class
\* that has not started, and nothing else runs, exactly min(K, N) succeed,
\* the others fail with CapacityExceeded, and the occupancy ends at min(K, N)
\* (the occupancy before the calls is 0).
C2_ExactAdmission ==
  \A c \in ClassIds :
    ( /\ Issued # {} /\ AllDone /\ FiredTogether
      /\ NotStarted(c)
      /\ \A r \in Issued : req[r].op = "apply" /\ req[r].classId = c
      /\ \A r, q \in Issued : r # q => req[r].userId # req[q].userId )
    => LET K == Cardinality(Issued)
           N == mclasses[c].maxParticipants
       IN /\ Cardinality(OkApplies(c)) = Min(K, N)
          /\ \A r \in Issued \ OkApplies(c) : req[r].result = "CapacityExceeded"
          /\ CountApplications(applications, c) = Min(K, N)

\* An Apply has read the application count of its class and its insert is
\* not yet visible.
InWindow(r) == req[r].pc \in {"txFindExisting", "txCreate", "txCommit"}

\* C3: the occupancy check and the insert of an Apply are indivisible: no two
\* Apply calls on one class are between their count read and their commit at
\* the same time.
C3_CheckInsertIndivisible ==
  \A r, q \in Reqs :
    (r # q /\ req[r].classId = req[q].classId) => ~(InWindow(r) /\ InWindow(q))

\* C4: there is at most one application record for each (userId, classId).
C4_UniquePerUserClass ==
  \A a, b \in applications :
    (a.userId = b.userId /\ a.classId = b.classId) => a = b

\* An insert reaches the unique index with its key already committed: the
\* duplicate check of the transaction has been overtaken.
C4_Witness ==
  \E r \in Reqs :
    /\ req[r].pc = "txCreate"
    /\ FindApplication(applications, req[r].userId, req[r].classId) # {}

\* C5: when M >= 2 Apply calls of one user are fired together at one class
\* that has not started (the user holds no application, a seat is free),
\* exactly one succeeds, every other one fails with AlreadyApplied, and the
\* occupancy rises by exactly 1.
C5_SameUserExactlyOnce ==
  \A c \in ClassIds, u \in Users :
    ( /\ Cardinality(Issued) >= 2 /\ AllDone /\ FiredTogether
      /\ NotStarted(c)
      /\ \A r \in Issued : req[r].op = "apply" /\ req[r].classId = c /\ req[r].userId = u )
    => /\ Cardinality(OkApplies(c)) = 1
       /\ \A r \in Issued \ OkApplies(c) : req[r].result = "AlreadyApplied"
       /\ CountApplications(applications, c) = 1

\* C6: once every call has returned, each class that still exists holds as
\* many records as Apply calls reported success minus Cancel calls that
\* reported success; every record belongs to an Apply that reported success,
\* and every Apply that reported success has its record unless a successful
\* Cancel of the same user and class removed it.
C6_NoLostNoPhantom ==
  AllDone =>
    /\ \A c \in ClassIds :
         ClassLive(c) =>
           CountApplications(applications, c)
             = Cardinality(OkApplies(c)) - Cardinality(OkCancels(c))
    /\ \A a \in applications :
         /\ req[a.id].op = "apply" /\ req[a.id].result = "Created"
         /\ req[a.id].userId = a.userId /\ req[a.id].classId = a.classId
    /\ \A c \in ClassIds : \A r \in OkApplies(c) :
         ClassLive(c) =>
           \/ \E a \in applications : a.id = r
           \/ \E q \in OkCancels(c) : req[q].userId = req[r].userId

\* Everything has returned, and a class holds no record after one admission
\* and one cancellation.
C6_Witness ==
  /\ AllDone
  /\ \E c \in ClassIds :
       /\ ClassLive(c)
       /\ Cardinality(OkApplies(c)) = 1
       /\ Cardinality(OkCancels(c)) = 1
       /\ CountApplications(applications, c) = 0

\* C7: an Apply of a user who holds an application to a full class fails with
\* AlreadyApplied, not with CapacityExceeded.
C7_DuplicateBeforeCapacity ==
  [][ \A r \in Reqs :
        ( /\ req[r].pc = "txFindClass" /\ req'[r].pc = "done"
          /\ ClassLive(req[r].classId)
          /\ FindApplication(applications, req[r].userId, req[r].classId) # {}
          /\ CountApplications(applications, req[r].classId)
               = mclasses[req[r].classId].maxParticipants )
        => req'[r].result = "AlreadyApplied" ]_vars

C9_InsertOnlyBeforeStart ==
  [][ \A r \in Reqs :
        ( req[r].pc = "txCreate" /\ req'[r].pc = "txCommit" )
        => ( /\ ClassLive(req[r].classId)
             /\ now < mclasses[req[r].classId].startAt ) ]_vars

\* C10: every Apply ends with success or with one of ClassNotFound,
\* ClassAlreadyStarted, AlreadyApplied, CapacityExceeded, TransientConflict.
C10_ClosedResultSet ==
  \A r \in Reqs :
    (req[r].op = "apply" /\ req[r].pc = "done") =>
      req[r].result \in {"Created", "ClassNotFound", "ClassAlreadyStarted",
                         "AlreadyApplied", "CapacityExceeded", "TransientConflict"}

\* The step answers request r.
Answers(r) == req[r].pc \notin {"idle", "done"} /\ req'[r].pc = "done"

\* The records other than the one request r inserted.
Without(r) == {a \in applications : a.id # r}

\* C11: a Cancel that succeeds on a full class leaves capacity - 1 records;
\* an Apply is not rejected while its class exists and has not started, its
\* user holds no application and a seat is free, and its commit adds one
\* record; so when a Cancel has succeeded on a full class and an Apply of a
\* user with no application follows it, the Apply succeeds and the class is
\* full again.
C11_CancelFreesSeat ==
  [][ /\ \A r \in Reqs :
           LET c == req[r].classId
               u == req[r].userId
           IN
             /\ ( /\ req[r].op = "cancel" /\ Answers(r) /\ req'[r].result = "Cancelled"
                  /\ ClassLive(c)
                  /\ CountApplications(applications, c) = mclasses[c].maxParticipants )
                => CountApplications(applications', c) = mclasses[c].maxParticipants - 1
             /\ ( /\ req[r].op = "apply" /\ Answers(r)
                  /\ NotStarted(c)
                  /\ FindApplication(applications, u, c) = {}
                  /\ CountApplications(applications, c) < mclasses[c].maxParticipants )
                => req'[r].result = "Created"
             /\ ( req[r].pc = "txCommit" /\ req'[r].pc = "created" )
                => CountApplications(applications', c) = CountApplications(applications, c) + 1
      /\ ( /\ Issued' = {1, 2} /\ AllDone' /\ ~burst' /\ NotStarted("c1")'
           /\ req'[1].op = "cancel" /\ req'[1].result = "Cancelled"
           /\ req'[2].op = "apply"
           /\ FindApplication(Without(2)', req'[2].userId, "c1") = {}
           /\ CountApplications(Without(2)', "c1") = mclasses'["c1"].maxParticipants - 1 )
         => /\ req'[2].result = "Created"
            /\ CountApplications(applications', "c1") = mclasses'["c1"].maxParticipants
    ]_vars

\* A Cancel succeeded on a full class, an Apply arrived after it had been
\* answered and succeeded, and the class is full again.
C11_Witness ==
  /\ Issued = {1, 2} /\ AllDone /\ ~burst /\ NotStarted("c1")
  /\ req[1].op = "cancel" /\ req[1].result = "Cancelled"
  /\ req[2].op = "apply" /\ req[2].result = "Created"
  /\ CountApplications(applications, "c1") = mclasses["c1"].maxParticipants

\* C12: the delete of a Cancel that has passed the class checks removes
\* exactly the record of its user and class when there is one and reports
\* success; when there is none it fails with ApplicationNotFound and leaves
\* every record as it was.
C12_CancelRemovesExactlyOne ==
  [][ \A r \in Reqs :
        ( req[r].op = "cancel" /\ req[r].pc = "cancelDelete" /\ Answers(r) ) =>
          LET mine == FindApplication(applications, req[r].userId, req[r].classId) IN
            IF mine # {}
              THEN /\ Cardinality(mine) = 1
                   /\ req'[r].result = "Cancelled"
                   /\ applications' = applications \ mine
              ELSE /\ req'[r].result = "ApplicationNotFound"
                   /\ applications' = applications ]_vars

\* A user cancelled with success and then once more, which failed with
\* ApplicationNotFound; the record of the other user is still there.
C12_Witness ==
  \E r, q \in Reqs :
    /\ req[r].op = "cancel" /\ req[r].result = "Cancelled"
    /\ req[q].op = "cancel" /\ req[q].result = "ApplicationNotFound"
    /\ req[q].userId = req[r].userId /\ req[q].classId = req[r].classId
    /\ \E a \in applications : a.classId = req[r].classId /\ a.userId # req[r].userId

C14_CancelOutsideApplyWindow ==
  [][ \A r, q \in Reqs :
        ( /\ req[r].op = "cancel" /\ Answers(r) /\ req'[r].result = "Cancelled"
          /\ req[q].op = "apply"
          /\ req[q].classId = req[r].classId /\ req[q].userId # req[r].userId )
        => req[q].pc \notin {"txFindExisting", "txCreate"} ]_vars

\* createApplication and cancelApplication run alone on an open class of
\* capacity cap whose records belong to the users of held: the response, and
\* the users that hold a record afterwards.
SeqResult(op, u, held, cap) ==
  IF op = "apply"
    THEN IF Cardinality(held) >= cap THEN "CapacityExceeded"
         ELSE IF u \in held THEN "AlreadyApplied"
         ELSE "Created"
    ELSE IF u \in held THEN "Cancelled" ELSE "ApplicationNotFound"

SeqHeld(op, u, held, cap) ==
  CASE SeqResult(op, u, held, cap) = "Created"   -> held \cup {u}
    [] SeqResult(op, u, held, cap) = "Cancelled" -> held \ {u}
    [] OTHER                                     -> held

\* The orders in which the requests of S can run one at a time.
Orders(S) ==
  {o \in [1..Cardinality(S) -> S] : \A i, j \in DOMAIN o : i # j => o[i] # o[j]}

\* Running the requests of order one at a time from held gives each the
\* response it got and leaves the records class c holds now.
RECURSIVE AgreesWith(_, _, _)
AgreesWith(order, held, c) ==
  IF order = <<>>
    THEN held = {a.userId : a \in {b \in applications : b.classId = c}}
    ELSE LET r   == Head(order)
             cap == mclasses[c].maxParticipants
         IN /\ req[r].result = SeqResult(req[r].op, req[r].userId, held, cap)
            /\ AgreesWith(Tail(order),
                          SeqHeld(req[r].op, req[r].userId, held, cap), c)

\* C15: the Apply and Cancel calls on one class are linearizable: when calls
\* that were all in flight together at a new, open class have returned, their
\* responses and the records of the class are those of the same calls run one
\* at a time in some order.
C15_Linearizable ==
  ( /\ Issued # {} /\ AllDone /\ FiredTogether
    /\ NotStarted("c1")
    /\ \A r \in Issued : req[r].op \in {"apply", "cancel"} /\ req[r].classId = "c1" )
  => \E order \in Orders(Issued) : AgreesWith(order, {}, "c1")

\* The step commits the insert of an Apply of user u to class c.
AppliedBy(u, c) ==
  \E r \in Reqs : /\ req[r].op = "apply" /\ req[r].userId = u /\ req[r].classId = c
                   /\ req[r].pc = "txCommit" /\ req'[r].pc = "created"

\* The step is the delete of a successful Cancel of user u for class c.
CancelledBy(u, c) ==
  \E r \in Reqs : /\ req[r].op = "cancel" /\ req[r].userId = u /\ req[r].classId = c
                   /\ Answers(r) /\ req'[r].result = "Cancelled"

\* The step deletes class c.
ClassDeleted(c) == ClassLive(c) /\ ~ClassLive(c)'

C17_CascadeIntegrity ==
  [][ /\ \A a \in applications' : ClassLive(a.classId)'
      /\ \A c \in ClassIds :
           ClassDeleted(c) => CountApplications(applications', c) = 0
      /\ \A r \in Reqs :
           ( req[r].op = "delete" /\ Answers(r) /\ req'[r].result = "Deleted" )
           => /\ ~ClassLive(req[r].classId)'
              /\ \A u \in Users :
                   \A a \in GetUserApplications(applications', u) :
                     a.classId # req[r].classId ]_vars

\* A user was admitted to a class, the class was deleted, and the user's
\* application list has no entry for it.
C17_Witness ==
  \E r, q \in Reqs :
    /\ req[r].op = "delete" /\ req[r].result = "Deleted"
    /\ req[q].op = "apply" /\ req[q].result = "Created"
    /\ req[q].classId = req[r].classId
    /\ \A a \in GetUserApplications(applications, req[q].userId) :
         a.classId # req[r].classId

C20_NotificationDecoupled ==
  [][ \A r \in Reqs :
        /\ ( req[r].mail = "none" /\ req'[r].mail # "none" )
           => /\ req[r].pc = "created"
              /\ \A a \in pending : a.id # r
              /\ req'[r].mail = "sending"
              /\ req'[r].pc = "done" /\ req'[r].result = "Created"
        /\ ( req[r].mail = "sending" /\ req'[r].mail # "sending" )
           => /\ req'[r].mail \in {"sent", "failed"}
              /\ req[r].pc = "done" /\ req'[r].pc = "done"
              /\ req[r].result = "Created" /\ req'[r].result = "Created"
              /\ applications' = applications ]_vars

\* The notification of an admitted user has failed; the user was answered
\* with success and holds the record.
C20_Witness ==
  \E r \in Reqs :
    /\ req[r].mail = "failed"
    /\ req[r].result = "Created"
    /\ \E a \in applications : a.id = r

C27_OccupancyReport ==
  [][ \A r \in Reqs :
        ( req[r].pc = "idle" /\ req'[r].op = "stats" ) =>
          LET c  == req'[r].classId
              st == req'[r].stats
              n  == Cardinality({a \in applications : a.classId = c})
              m  == mclasses[c].maxParticipants
          IN IF mclasses[c].status = "live"
               THEN /\ st.found
                    /\ st.currentApplications = n
                    /\ st.maxParticipants = m
                    /\ st.availableSpots = (IF m - n > 0 THEN m - n ELSE 0)
                    /\ st.isFullyBooked = (n >= m)
               ELSE st = NoStats ]_vars

\* A report of a class that holds more records than maxParticipants, and a
\* null report.
C27_Witness ==
  \E r, q \in Reqs :
    /\ req[r].op = "stats" /\ req[r].stats.found
    /\ req[r].stats.currentApplications > req[r].stats.maxParticipants
    /\ req[r].stats.availableSpots = 0 /\ req[r].stats.isFullyBooked
    /\ req[q].op = "stats" /\ ~req[q].stats.found

\* list holds the items at positions (page - 1) * limit + 1 .. page * limit
\* of rows in the order of createdAt, ascending or descending: it has the
\* length of that range, its items are distinct rows, and the item at
\* position k has fewer than k rows strictly before it and at least k rows
\* before or level with it.
IsPageOf(list, rows, page, limit, ascending) ==
  LET first == (page - 1) * limit
      left  == Cardinality(rows) - first
      Ahead(y, x) == IF ascending THEN y.createdAt < x.createdAt
                                  ELSE y.createdAt > x.createdAt
  IN /\ Len(list) = (IF left <= 0 THEN 0 ELSE IF left < limit THEN left ELSE limit)
     /\ \A i \in DOMAIN list : list[i] \in rows
     /\ \A i, j \in DOMAIN list : i # j => list[i] # list[j]
     /\ \A i \in DOMAIN list :
          /\ Cardinality({y \in rows : Ahead(y, list[i])}) < first + i
          /\ Cardinality({y \in rows : ~Ahead(list[i], y)}) >= first + i

\* C22: getClassApplications returns the records of a class by application
\* time ascending, getUserApplications the records of a user by application
\* time descending, and page p of size L holds positions (p-1)*L+1 .. p*L of
\* that order.
C22_ListingOrder ==
  [][ \A r \in Reqs :
        /\ ( req[r].pc = "idle" /\ req'[r].op = "listClass" )
           => IsPageOf(req'[r].list,
                       {a \in applications : a.classId = req'[r].classId},
                       req'[r].page, req'[r].limit, TRUE)
        /\ ( req[r].pc = "idle" /\ req'[r].op = "listUser" )
           => IsPageOf(req'[r].list,
                       {a \in applications : a.userId = req'[r].userId},
                       req'[r].page, req'[r].limit, FALSE) ]_vars

\* A user's listing shows the later of two applications first, and the
\* second page of a class listing holds a record that was not applied first.
C22_Witness ==
  \E r, q \in Reqs :
    /\ req[r].op = "listUser" /\ Len(req[r].list) = 2
    /\ req[r].list[1].createdAt > req[r].list[2].createdAt
    /\ req[q].op = "listClass" /\ req[q].page = 2 /\ Len(req[q].list) = 1
    /\ \E a \in applications :
         /\ a.classId = req[q].classId
         /\ a.createdAt < req[q].list[1].createdAt

\* C23: every class that class creation stores has a positive capacity,
\* startAt before endAt, both later than the creation time, and lasts at
\* least 30 minutes and at most 8 hours; a request that breaks one of these
\* creates no class.
C23_CreatedClassValid ==
  [][ \A c \in ClassIds :
        ( mclasses[c].status = "none" /\ mclasses'[c].status = "live" )
        => /\ mclasses'[c].maxParticipants >= 1
           /\ mclasses'[c].startAt < mclasses'[c].endAt
           /\ mclasses'[c].startAt > now
           /\ mclasses'[c].endAt > now
           /\ mclasses'[c].endAt - mclasses'[c].startAt >= MinDuration
           /\ mclasses'[c].endAt - mclasses'[c].startAt <= MaxDuration ]_vars

\* C24: the capacity of a class is immutable once applications exist: no
\* step changes maxParticipants of a class that holds a record, so the
\* capacity is never lowered below the number of records.
C24_CapacityImmutable ==
  [][ \A c \in ClassIds :
        ( ClassLive(c) /\ mclasses'[c].status = "live"
          /\ CountApplications(applications, c) >= 1 )
        => mclasses'[c].maxParticipants = mclasses[c].maxParticipants ]_vars

\* The records other than that of user u for class c.
OtherRecords(rows, u, c) == {a \in rows : ~(a.userId = u /\ a.classId = c)}

\* A step of an Apply or Cancel call of user u for class c, successful or
\* not, leaves every record but that of (u, c) and every class record
\* unchanged.
FrameOfCall ==
  [][ \A r \in Reqs :
        ( req'[r] # req[r] /\ req'[r].op \in {"apply", "cancel"} )
        => /\ OtherRecords(applications', req'[r].userId, req'[r].classId)
              = OtherRecords(applications, req'[r].userId, req'[r].classId)
           /\ mclasses' = mclasses ]_vars

\* Calls on different classes never affect each other's results: a call in
\* flight at a new, open class together with calls that are all on other
\* classes gets the response of the call run alone.
ClassesIndependent ==
  \A r, q \in Reqs :
    ( /\ r # q /\ AllDone /\ FiredTogether
      /\ req[r].op \in {"apply", "cancel"} /\ req[q].op \in {"apply", "cancel"}
      /\ \A p \in Issued \ {r} : req[p].classId # req[r].classId
      /\ NotStarted(req[r].classId) /\ NotStarted(req[q].classId) )
    => req[r].result = SeqResult(req[r].op, req[r].userId, {},
                                 mclasses[req[r].classId].maxParticipants)

\* C25: an Apply or Cancel call changes at most the record of its own
\* (userId, classId) pair and no class record, and calls on different classes
\* never affect each other's results.
C25_FrameAndIndependence == FrameOfCall /\ []ClassesIndependent

\* Two users have each taken the one place of a different class.
C25_Witness ==
  \E r, q \in Reqs :
    /\ AllDone /\ FiredTogether
    /\ req[r].op = "apply" /\ req[q].op = "apply"
    /\ req[r].classId # req[q].classId /\ req[r].userId # req[q].userId
    /\ req[r].result = "Created" /\ req[q].result = "Created"
    /\ mclasses[req[r].classId].maxParticipants = 1
    /\ mclasses[req[q].classId].maxParticipants = 1
    /\ Cardinality(applications) = 2

\* The (userId, classId) pairs of the records.
Pairs(rows) == {<<a.userId, a.classId>> : a \in rows}

ApplyFails(r) ==
  /\ req'[r].op = "apply"
  /\ req[r].pc # "done" /\ req'[r].pc = "done"
  /\ req'[r].result # "Created"

\* C28: a failed Apply changes nothing: the step in which an Apply ends with
\* an error, whichever it is, leaves the records as they were, the call has
\* added no record, and no success notification is sent for it.
C28_FailedApplyChangesNothing ==
  /\ [][ \A r \in Reqs :
            ApplyFails(r) => /\ applications' = applications
                             /\ req'[r].mail = "none" ]_vars
  /\ [] ( \A r \in Reqs :
            ( req[r].op = "apply" /\ req[r].pc = "done" /\ req[r].result # "Created" )
            => /\ \A a \in applications : a.id # r
               /\ req[r].mail = "none" )

\* An Apply failed inside the transaction after its insert, beside an Apply
\* that succeeded, and the class holds the record of the second only.
C28_Witness ==
  \E r, q \in Reqs :
    /\ req[r].op = "apply" /\ req[r].pc = "done" /\ req[r].err = "P2028"
    /\ req[r].result = "InternalError"
    /\ req[q].op = "apply" /\ req[q].result = "Created"
    /\ req[q].userId # req[r].userId
    /\ applications = {a \in applications : a.id = q} /\ applications # {}
    /\ pending = {}

\* C29: every record refers to an existing class; and when a class deletion
\* and Apply calls on that class, all in flight together, have returned and
\* the deletion succeeded, the class holds no record, every Apply has either
\* succeeded before the deletion or failed, and a failed Apply has inserted
\* nothing.
C29_NoOrphanApplications ==
  /\ \A a \in applications : ClassLive(a.classId)
  /\ \A r \in Reqs :
       ( /\ AllDone /\ FiredTogether
         /\ req[r].op = "delete" /\ req[r].result = "Deleted" )
       => /\ \A a \in applications \cup pending : a.classId # req[r].classId
          /\ \A q \in Reqs :
               ( req[q].op = "apply" /\ req[q].classId = req[r].classId )
               => /\ req[q].result \in {"Created", "ClassNotFound", "InvalidIds",
                                         "ClassAlreadyStarted", "AlreadyApplied",
                                         "CapacityExceeded"}
                  /\ \A a \in applications \cup pending : a.id # q

\* An Apply read the class, the class was deleted, and the insert of the
\* Apply failed on the foreign key.
C29_Witness ==
  \E r, q \in Reqs :
    /\ AllDone /\ FiredTogether
    /\ req[r].op = "delete" /\ req[r].result = "Deleted"
    /\ req[q].op = "apply" /\ req[q].classId = req[r].classId
    /\ req[q].err = "P2003" /\ req[q].result = "InvalidIds"
    /\ applications = {} /\ pending = {}

\* Requests r and q are Cancel calls of one user for one class.
SameCancel(r, q) ==
  /\ r # q
  /\ req[r].op = "cancel" /\ req[q].op = "cancel"
  /\ req[r].userId = req[q].userId /\ req[r].classId = req[q].classId

\* No request is an Apply of user u to class c.
NoApplyOf(u, c) ==
  \A p \in Reqs : ~(req[p].op = "apply" /\ req[p].userId = u /\ req[p].classId = c)

\* C30: of the Cancel calls of one user for one class that run together on a
\* class that has not started, with no Apply of that user among them, at most
\* one succeeds; when one has succeeded every other has failed with
\* ApplicationNotFound and the record is gone;
\* the step of the successful call lowers the occupancy by exactly 1 and the
\* step of a failing call leaves the records as they were.
C30_ConcurrentCancel ==
  /\ [] ( \A r, q \in Reqs :
            ( SameCancel(r, q) /\ AllDone /\ FiredTogether
              /\ NoApplyOf(req[r].userId, req[r].classId)
              /\ NotStarted(req[r].classId) /\ req[r].result = "Cancelled" )
            => /\ req[q].result = "ApplicationNotFound"
               /\ FindApplication(applications, req[r].userId, req[r].classId) = {} )
  /\ [][ \A r, q \in Reqs :
            ( SameCancel(r, q) /\ FiredTogether /\ Answers(r) )
            => /\ req'[r].result = "Cancelled"
                  => Cardinality({a \in applications' : a.classId = req[r].classId})
                     = Cardinality({a \in applications : a.classId = req[r].classId}) - 1
               /\ req'[r].result # "Cancelled" => applications' = applications
               /\ ( /\ req[r].pc = "cancelDelete"
                    /\ FindApplication(applications, req[r].userId, req[r].classId) # {} )
                  => req'[r].result = "Cancelled" ]_vars

\* Two Cancel calls of a user who held a record were in flight together: one
\* succeeded, the other failed with ApplicationNotFound, and the record of
\* another user is what the class holds.
C30_Witness ==
  \E r, q \in Reqs :
    /\ SameCancel(r, q) /\ AllDone /\ FiredTogether
    /\ NotStarted(req[r].classId)
    /\ req[r].result = "Cancelled" /\ req[q].result = "ApplicationNotFound"
    /\ Cardinality(applications) = 1

====
